---- MODULE Spec2Model ----
(***************************************************************************)
(* A model of the no-sleep library.                                        *)
(*                                                                         *)
(*   src/lib/main.ts       three classes NoSleepSSR, NoSleepNative and     *)
(*                         NoSleepVideo behind one default export           *)
(*   src/unnamed/part_000  the earlier single-class variant NoSleep, which *)
(*                         evaluates nativeWakeLock() in every method      *)
(*                                                                         *)
(* One instance is modelled.  The browser is the environment: it grants,   *)
(* rejects and releases wake locks, settles play() promises, and fires     *)
(* visibility and media events.  Media element tasks (the pause, ended and *)
(* error events and the settling of play() promises) are delivered in the  *)
(* order the element queued them, as the HTML standard prescribes.         *)
(*                                                                         *)
(* Time is counted in quarters of a second: 0.5 s is 2, 1 s is 4.          *)
(* playbackRate is counted in tenths: 1.0 is 10, 0.1 is 1.                 *)
(***************************************************************************)
EXTENDS Integers, Sequences, FiniteSets, TLC

\* Bounds of the model.
MaxCalls == 2      \* enable() calls (direct or by the visibility handler)
MaxQ == 2          \* media element tasks queued at once
MaxRepeat == 2     \* disable() calls counted since the latest enable()

\* Program constants.
Half == 2          \* 0.5 s, the seek-reset threshold and reset range
One == 4           \* 1 s, the loop threshold of the earlier variants
SlowRate == 1      \* playbackRate 0.1

Ids == 1..MaxCalls
Durations == {4, 6}             \* 1 s, 1.5 s
DocEvents == {"visibilitychange", "fullscreenchange"}
\* options.videoSourceType: absent, or one of the two formats
SourceTypes == {"undefined", "webm", "mp4"}
NamedEvents == {"loadedmetadata", "error", "pause", "ended"}

VARIABLES
  \* the environment the module is evaluated in
  hasNavigator,     \* typeof navigator !== 'undefined'
  hasWakeLock,      \* 'wakeLock' in navigator
  standalone,       \* navigator.standalone / display-mode: standalone
  visible,          \* document.visibilityState === 'visible'
  \* the module and the instance
  cls,              \* the default export: "unset" before the module is evaluated
  kind,             \* the class of the instance, "none" before construction
  ctorNative,       \* part_000: the constructor took the native branch
  isEnabled,
  wakeLock,         \* 0 = undefined/null, else the id of the sentinel referenced
  docListeners,     \* document listeners registered by the instance
  \* enable() calls and the platform operation each started
  nCalls,
  op,               \* id -> state of the wake-lock request / play() promise:
                    \*   "requested" -> "granted" -> "released", or -> "failed"
                    \*   "pending" -> "taken" -> "ok" or "failed"
  promise,          \* id -> state of the promise enable() returned
  issuer,           \* id -> "user" or "event" (the visibility handler)
  \* the video element
  paused, currentTime, duration, playbackRate, loop, inBody,
  videoSourceType,  \* options.videoSourceType as passed to the constructor
  sources,          \* the types of the element's source children, in order
  elListeners,      \* named listeners registered on the element
  nTimeupdate,      \* anonymous timeupdate listeners registered on the element
  metaLoaded,       \* the clip's metadata is loaded (loadedmetadata has fired)
  tuPending,        \* a timeupdate event is waiting to be dispatched
  updated,          \* the latest timeupdate listener wrote currentTime
                    \*   (updatedTime !== undefined)
  mediaQ,           \* media element tasks queued, oldest first
  \* what the caller observed
  thrown,           \* the exception of the latest synchronous call, or "none"
  nDisable,         \* disable() calls since the latest enable() (capped)
  raced,            \* disable() ran while an enable() was pending, no enable() since
  lastBranch        \* part_000: the branch the latest enable()/disable() took

envVars == <<hasNavigator, hasWakeLock, standalone, visible>>
instVars == <<cls, kind, ctorNative, isEnabled, wakeLock, docListeners>>
callVars == <<nCalls, op, promise, issuer>>
videoVars == <<paused, currentTime, duration, playbackRate, loop, inBody,
               videoSourceType, sources,
               elListeners, nTimeupdate, metaLoaded, tuPending, updated,
               mediaQ>>
obsVars == <<thrown, nDisable, raced, lastBranch>>
vars == <<envVars, instVars, callVars, videoVars, obsVars>>

Min(a, b) == IF a < b THEN a ELSE b

\* The ids whose operation is in the given state.
InState(s) == {i \in Ids : op[i] = s}
NoFunc == [i \in Ids |-> "none"]

(***************************************************************************)
(* Capability detection                                                    *)
(***************************************************************************)
\* A plausible slip: the standalone exclusion is forgotten.
defaultExport_noStandalone(nav, wl, sa) ==
  IF ~nav THEN "NoSleepSSR"
  ELSE IF wl THEN "NoSleepNative"
  ELSE "NoSleepVideo"

\* main.ts: the class the module exports by default.
defaultExport(nav, wl, sa) ==
  IF ~nav THEN "NoSleepSSR"
  ELSE IF wl /\ ~sa THEN "NoSleepNative"
  ELSE "NoSleepVideo"

\* part_000: nativeWakeLock(), evaluated against the environment of the moment.
nativeWakeLock == hasWakeLock /\ ~standalone

EnvInit ==
  /\ hasNavigator \in BOOLEAN
  /\ hasWakeLock \in BOOLEAN
  /\ standalone \in BOOLEAN
  /\ visible = TRUE

Blank ==
  /\ kind = "none"
  /\ ctorNative = FALSE
  /\ isEnabled = FALSE
  /\ wakeLock = 0
  /\ docListeners = {}
  /\ nCalls = 0
  /\ op = NoFunc
  /\ promise = NoFunc
  /\ issuer = NoFunc
  /\ paused = TRUE
  /\ currentTime = 0
  /\ duration \in Durations
  /\ playbackRate = 10        \* 1.0, a media element's default
  /\ loop = FALSE
  /\ inBody = FALSE
  /\ videoSourceType = "undefined"
  /\ sources = <<>>
  /\ elListeners = {}
  /\ nTimeupdate = 0
  /\ metaLoaded = FALSE
  /\ tuPending = FALSE
  /\ updated = FALSE
  /\ mediaQ = <<>>
  /\ thrown = "none"
  /\ nDisable = 0
  /\ raced = FALSE
  /\ lastBranch = "none"

Init == EnvInit /\ Blank /\ cls = "unset"


(***************************************************************************)
(* Helpers                                                                 *)
(***************************************************************************)
\* An enable() is pending: its platform operation has not settled.
Pending == InState("requested") \cup InState("pending") \cup InState("taken")

\* sentinel.release() on the sentinel w (0: no sentinel; released twice: no-op).
ReleaseLock(o, w) ==
  IF w # 0 /\ o[w] = "granted" THEN [o EXCEPT ![w] = "released"] ELSE o

\* The media element's internal pause steps: the pending play() promises are
\* taken and a task is queued that fires pause and rejects them.
PauseSteps ==
  IF paused
  THEN UNCHANGED <<paused, mediaQ, op>>
  ELSE /\ paused' = TRUE
       /\ mediaQ' = Append(mediaQ, [type |-> "pause", ids |-> InState("pending")])
       /\ op' = [i \in Ids |-> IF op[i] = "pending" THEN "taken" ELSE op[i]]

\* PauseSteps queues a task only when the element is playing.
QueueHasRoom == paused \/ Len(mediaQ) < MaxQ

(***************************************************************************)
(* main.ts: module evaluation and construction                             *)
(***************************************************************************)
ModuleLoad ==
  /\ cls = "unset"
  /\ cls' = defaultExport(hasNavigator, hasWakeLock, standalone)
  /\ UNCHANGED <<envVars, kind, ctorNative, isEnabled, wakeLock, docListeners,
                 callVars, videoVars, obsVars>>

\* NoSleepNative.constructor: takes no options.
NativeConstructor ==
  /\ kind' = "NoSleepNative"
  /\ docListeners' = DocEvents
  /\ UNCHANGED <<inBody, videoSourceType, sources, elListeners>>

\* NoSleepVideo._addSourceToVideo: a source child of the given type is
\* appended to the element's children.
addSourceToVideo(children, type) == Append(children, "video/" \o type)

\* A plausible slip: the two formats are attached in the other order.
VideoSources_mp4First(t) ==
  LET mp4 == IF t = "mp4" \/ t = "undefined"
             THEN addSourceToVideo(<<>>, "mp4") ELSE <<>>
  IN IF t = "webm" \/ t = "undefined" THEN addSourceToVideo(mp4, "webm") ELSE mp4

\* NoSleepVideo.constructor: the source children attached for
\* options.videoSourceType = t.
VideoSources(t) ==
  LET webm == IF t = "webm" \/ t = "undefined"
              THEN addSourceToVideo(<<>>, "webm") ELSE <<>>
  IN IF t = "mp4" \/ t = "undefined" THEN addSourceToVideo(webm, "mp4") ELSE webm

\* NoSleepVideo.constructor, called with options.videoSourceType = t.  The
\* document has a body, to which the element is appended.
VideoConstructor(t) ==
  /\ kind' = "NoSleepVideo"
  /\ videoSourceType' = t
  /\ sources' = VideoSources(t)
  /\ inBody' = TRUE
  /\ elListeners' = NamedEvents
  /\ UNCHANGED docListeners

\* NoSleepSSR has no constructor.
SSRConstructor ==
  /\ kind' = "NoSleepSSR"
  /\ UNCHANGED <<docListeners, inBody, videoSourceType, sources, elListeners>>

\* new NoSleep(options) with options.videoSourceType = t: the default export
\* is the class chosen at module evaluation.
NewWith(t) ==
  /\ cls # "unset"
  /\ kind = "none"
  /\ CASE cls = "NoSleepSSR" -> SSRConstructor
       [] cls = "NoSleepNative" -> NativeConstructor
       [] cls = "NoSleepVideo" -> VideoConstructor(t)
  /\ UNCHANGED <<envVars, cls, ctorNative, isEnabled, wakeLock, callVars,
                 paused, currentTime, duration, playbackRate, loop,
                 nTimeupdate, metaLoaded, tuPending, updated, mediaQ, obsVars>>

\* createNoSleepVideo(options) with options.videoSourceType = t: the video
\* class whatever the platform offers.
createNoSleepVideoWith(t) ==
  /\ cls \notin {"unset", "NoSleepSSR"}
  /\ kind = "none"
  /\ VideoConstructor(t)
  /\ UNCHANGED <<envVars, cls, ctorNative, isEnabled, wakeLock, callVars,
                 paused, currentTime, duration, playbackRate, loop,
                 nTimeupdate, metaLoaded, tuPending, updated, mediaQ, obsVars>>

\* new NoSleep(): no options.
New == NewWith("undefined")

\* createNoSleepVideo(): no options.
createNoSleepVideo == createNoSleepVideoWith("undefined")

(***************************************************************************)
(* main.ts: enable()                                                       *)
(***************************************************************************)
\* The next enable() call starts a platform operation in state s; o is the
\* state of the earlier operations.
StartCallOn(o, who, s, p) ==
  /\ nCalls < MaxCalls
  /\ nCalls' = nCalls + 1
  /\ op' = [o EXCEPT ![nCalls + 1] = s]
  /\ promise' = [promise EXCEPT ![nCalls + 1] = p]
  /\ issuer' = [issuer EXCEPT ![nCalls + 1] = who]

StartCall(who, s, p) == StartCallOn(op, who, s, p)

\* A plausible slip: the No-op enable() returns silently, as its dispose() does.
SSREnable_silent ==
  /\ kind = "NoSleepSSR"
  /\ thrown' = "none"
  /\ UNCHANGED <<isEnabled, wakeLock, callVars, paused, mediaQ>>

\* NoSleepSSR.enable: throws synchronously.
SSREnable ==
  /\ kind = "NoSleepSSR"
  /\ thrown' = "Error"
  /\ UNCHANGED <<isEnabled, wakeLock, callVars, paused, mediaQ>>

\* NoSleepNative.enable up to its await: the wake lock is requested.
NativeEnable(o, who) ==
  StartCallOn(o, who, "requested", "pending")

\* play() on an element whose playback has ended seeks to the start.
PlaySeek == IF metaLoaded /\ ~loop /\ currentTime = duration THEN 0 ELSE currentTime

\* NoSleepVideo.enable up to its await: play() is called.  When the platform
\* refuses playback the promise is already rejected and the catch block runs
\* before any other task.
VideoEnable ==
  /\ kind = "NoSleepVideo"
  /\ thrown' = "none"
  /\ \E allowed \in BOOLEAN :
       IF allowed
       THEN /\ StartCall("user", "pending", "pending")
            /\ paused' = FALSE
            /\ currentTime' = PlaySeek
            /\ UNCHANGED isEnabled
       ELSE /\ StartCall("user", "failed", "fulfilled")
            /\ isEnabled' = FALSE
            /\ UNCHANGED <<paused, currentTime>>
  /\ UNCHANGED <<wakeLock, mediaQ>>

Enable ==
  /\ kind \in {"NoSleepSSR", "NoSleepNative", "NoSleepVideo"}
  /\ nDisable' = 0
  /\ \/ SSREnable /\ UNCHANGED <<raced, currentTime>>
     \/ /\ kind = "NoSleepNative"
        /\ NativeEnable(op, "user")
        /\ thrown' = "none"
        /\ raced' = FALSE
        /\ UNCHANGED <<isEnabled, wakeLock, paused, mediaQ, currentTime>>
     \/ VideoEnable /\ raced' = FALSE
  /\ UNCHANGED <<envVars, cls, kind, ctorNative, docListeners,
                 duration, videoSourceType, sources,
                 playbackRate, loop, inBody, elListeners,
                 nTimeupdate, metaLoaded, tuPending, updated, lastBranch>>

\* NoSleepNative.enable after its await, the request granted.
RequestGrant(i) ==
  /\ kind = "NoSleepNative"
  /\ op[i] = "requested"
  /\ visible
  /\ wakeLock' = i
  /\ isEnabled' = TRUE
  /\ op' = [op EXCEPT ![i] = "granted"]
  /\ promise' = [promise EXCEPT ![i] = "fulfilled"]
  /\ UNCHANGED <<envVars, cls, kind, ctorNative, docListeners, nCalls, issuer,
                 videoVars, obsVars>>

\* NoSleepNative.enable after its await, the request rejected: the catch
\* block logs the error and the async function returns normally.
RequestReject(i) ==
  /\ kind = "NoSleepNative"
  /\ op[i] = "requested"
  /\ isEnabled' = FALSE
  /\ op' = [op EXCEPT ![i] = "failed"]
  /\ promise' = [promise EXCEPT ![i] = "fulfilled"]
  /\ UNCHANGED <<envVars, cls, kind, ctorNative, wakeLock, docListeners,
                 nCalls, issuer, videoVars, obsVars>>


(***************************************************************************)
(* main.ts: disable()                                                      *)
(***************************************************************************)
\* NoSleepSSR.disable: throws.
SSRDisable ==
  /\ kind = "NoSleepSSR"
  /\ thrown' = "Error"
  /\ UNCHANGED <<isEnabled, wakeLock, op, paused, mediaQ>>

\* A plausible slip: the lock is released but isEnabled is left as it was.
NativeDisable_keepsFlag ==
  /\ kind = "NoSleepNative"
  /\ thrown' = "none"
  /\ op' = ReleaseLock(op, wakeLock)
  /\ wakeLock' = 0
  /\ UNCHANGED <<isEnabled, paused, mediaQ>>

\* NoSleepNative.disable
NativeDisable ==
  /\ kind = "NoSleepNative"
  /\ thrown' = "none"
  /\ op' = ReleaseLock(op, wakeLock)
  /\ wakeLock' = 0
  /\ isEnabled' = FALSE
  /\ UNCHANGED <<paused, mediaQ>>

\* NoSleepVideo.disable
VideoDisable ==
  /\ kind = "NoSleepVideo"
  /\ thrown' = "none"
  /\ QueueHasRoom
  /\ PauseSteps
  /\ isEnabled' = FALSE
  /\ UNCHANGED wakeLock

Disable ==
  /\ kind \in {"NoSleepSSR", "NoSleepNative", "NoSleepVideo"}
  /\ nDisable' = Min(nDisable + 1, MaxRepeat)
  /\ \/ SSRDisable /\ UNCHANGED raced
     \/ NativeDisable /\ raced' = (raced \/ Pending # {})
     \/ VideoDisable /\ raced' = (raced \/ Pending # {})
  /\ UNCHANGED <<envVars, cls, kind, ctorNative, docListeners, nCalls, promise,
                 issuer, currentTime, duration, videoSourceType, sources,
                 playbackRate, loop, inBody,
                 elListeners, nTimeupdate, metaLoaded, tuPending, updated, lastBranch>>

(***************************************************************************)
(* main.ts: dispose()                                                      *)
(***************************************************************************)
\* NoSleepSSR.dispose: empty.
SSRDispose ==
  /\ kind = "NoSleepSSR"
  /\ thrown' = "none"
  /\ UNCHANGED <<isEnabled, wakeLock, docListeners, op, paused, mediaQ,
                 inBody, elListeners>>

\* A plausible slip: the lock is released but the listeners stay registered.
NativeDispose_keepsListeners ==
  /\ kind = "NoSleepNative"
  /\ thrown' = "none"
  /\ op' = ReleaseLock(op, wakeLock)
  /\ wakeLock' = 0
  /\ isEnabled' = FALSE
  /\ UNCHANGED <<docListeners, paused, mediaQ, inBody, elListeners>>

\* NoSleepNative.dispose
NativeDispose ==
  /\ kind = "NoSleepNative"
  /\ thrown' = "none"
  /\ docListeners' = docListeners \ DocEvents
  /\ op' = ReleaseLock(op, wakeLock)
  /\ wakeLock' = 0
  /\ isEnabled' = FALSE
  /\ UNCHANGED <<paused, mediaQ, inBody, elListeners>>

\* NoSleepVideo.dispose: the four named listeners are removed, then the
\* element is removed from document.body; removeChild throws NotFoundError
\* when the element is not a child of the body.  The browser pauses a media
\* element that has left the document.
VideoDispose ==
  /\ kind = "NoSleepVideo"
  /\ elListeners' = elListeners \ NamedEvents
  /\ IF inBody
     THEN /\ QueueHasRoom
          /\ inBody' = FALSE
          /\ PauseSteps
          /\ thrown' = "none"
     ELSE /\ thrown' = "NotFoundError"
          /\ UNCHANGED <<inBody, paused, mediaQ, op>>
  /\ UNCHANGED <<isEnabled, wakeLock, docListeners>>

Dispose ==
  /\ kind \in {"NoSleepSSR", "NoSleepNative", "NoSleepVideo"}
  /\ UNCHANGED nDisable
  /\ (SSRDispose \/ NativeDispose \/ VideoDispose)
  /\ UNCHANGED <<envVars, cls, kind, ctorNative, nCalls, promise, issuer,
                 currentTime, duration, videoSourceType, sources,
                 playbackRate, loop, nTimeupdate,
                 metaLoaded, tuPending, updated, raced, lastBranch>>

(***************************************************************************)
(* main.ts: the native strategy's events                                   *)
(***************************************************************************)
\* The platform releases a lock on its own.  The release listener that
\* enable() registered logs and changes nothing.
PlatformRelease(i) ==
  /\ op[i] = "granted"
  /\ op' = [op EXCEPT ![i] = "released"]
  /\ UNCHANGED <<envVars, instVars, nCalls, promise, issuer, videoVars, obsVars>>

\* A plausible slip: the handler re-enables whether or not a handle is kept.
handleVisibilityChange_always(o, vis) ==
  IF vis
  THEN NativeEnable(o, "event")
  ELSE UNCHANGED <<nCalls, promise, issuer>> /\ op' = o

\* A plausible slip: the handler re-enables whether or not the page is visible.
handleVisibilityChange_hidden(o, vis) ==
  IF wakeLock # 0
  THEN NativeEnable(o, "event")
  ELSE UNCHANGED <<nCalls, promise, issuer>> /\ op' = o

\* NoSleepNative.handleVisibilityChange, run with visibilityState = vis; o is
\* the state of the operations when the event fires.
handleVisibilityChange(o, vis) ==
  IF wakeLock # 0 /\ vis
  THEN NativeEnable(o, "event")
  ELSE UNCHANGED <<nCalls, promise, issuer>> /\ op' = o

\* The document's listeners for event e run.
DocDispatch(e, o, vis) ==
  /\ IF e \in docListeners
     THEN handleVisibilityChange(o, vis)
     ELSE UNCHANGED <<nCalls, promise, issuer>> /\ op' = o
  /\ nDisable' = IF nCalls' > nCalls THEN 0 ELSE nDisable
  /\ raced' = IF nCalls' > nCalls THEN FALSE ELSE raced
  /\ UNCHANGED <<thrown, lastBranch>>

\* The page is hidden: the platform releases every lock, then
\* visibilitychange fires.
BecomeHidden ==
  /\ kind = "NoSleepNative"
  /\ visible
  /\ visible' = FALSE
  /\ DocDispatch("visibilitychange",
                 [i \in Ids |-> IF op[i] = "granted" THEN "released" ELSE op[i]],
                 FALSE)
  /\ UNCHANGED <<hasNavigator, hasWakeLock, standalone, instVars, videoVars>>

\* The page is shown again and visibilitychange fires.
BecomeVisible ==
  /\ kind = "NoSleepNative"
  /\ ~visible
  /\ visible' = TRUE
  /\ DocDispatch("visibilitychange", op, TRUE)
  /\ UNCHANGED <<hasNavigator, hasWakeLock, standalone, instVars, videoVars>>

\* fullscreenchange fires; the visibility state is what it was.
FullscreenChange ==
  /\ kind = "NoSleepNative"
  /\ DocDispatch("fullscreenchange", op, visible)
  /\ UNCHANGED <<envVars, instVars, videoVars>>


(***************************************************************************)
(* main.ts: the video strategy's events                                    *)
(***************************************************************************)
\* The instance owns a video element.
HasVideo == kind = "NoSleepVideo" \/ (kind = "NoSleep" /\ ~ctorNative)

\* The element is ready to play: the pending play() promises are taken and a
\* task is queued that resolves them.
PlatformPlaying ==
  /\ HasVideo
  /\ metaLoaded
  /\ InState("pending") # {}
  /\ Len(mediaQ) < MaxQ
  /\ mediaQ' = Append(mediaQ, [type |-> "resolve", ids |-> InState("pending")])
  /\ op' = [i \in Ids |-> IF op[i] = "pending" THEN "taken" ELSE op[i]]
  /\ UNCHANGED <<envVars, instVars, nCalls, promise, issuer, paused,
                 currentTime, duration, videoSourceType, sources,
                 playbackRate, loop, inBody,
                 elListeners, nTimeupdate, metaLoaded, tuPending, updated, obsVars>>

\* The browser pauses the element on its own.
PlatformPause ==
  /\ HasVideo
  /\ ~paused
  /\ Len(mediaQ) < MaxQ
  /\ PauseSteps
  /\ UNCHANGED <<envVars, instVars, nCalls, promise, issuer, currentTime,
                 duration, videoSourceType, sources,
                 playbackRate, loop, inBody, elListeners,
                 nTimeupdate, metaLoaded, tuPending, updated, obsVars>>

\* A media error: a task is queued that fires error and rejects the pending
\* play() promises.
MediaError ==
  /\ HasVideo
  /\ Len(mediaQ) < MaxQ
  /\ mediaQ' = Append(mediaQ, [type |-> "error", ids |-> InState("pending")])
  /\ op' = [i \in Ids |-> IF op[i] = "pending" THEN "taken" ELSE op[i]]
  /\ UNCHANGED <<envVars, instVars, nCalls, promise, issuer, paused,
                 currentTime, duration, videoSourceType, sources,
                 playbackRate, loop, inBody,
                 elListeners, nTimeupdate, metaLoaded, tuPending, updated, obsVars>>

\* The element is playing: not paused, its metadata loaded, and no play()
\* promise still waiting for playback to start.
Playing == ~paused /\ metaLoaded /\ InState("pending") = {}

\* Playback moves forward short of the end of the clip (and wraps around
\* when the element loops); a timeupdate event will be dispatched.
Advance ==
  /\ HasVideo
  /\ Playing
  /\ \E t \in 0..duration :
       /\ t > currentTime \/ (loop /\ t < currentTime)
       /\ loop \/ t < duration
       /\ currentTime' = t
  /\ tuPending' = TRUE
  /\ UNCHANGED <<envVars, instVars, callVars, paused, duration, videoSourceType, sources,
                 playbackRate,
                 loop, inBody, elListeners, nTimeupdate, metaLoaded, updated,
                 mediaQ, obsVars>>

\* Playback reaches the end of a clip that does not loop: a task is queued
\* that pauses the element if playback is still at the end when it runs and
\* fires ended.
ReachEnd ==
  /\ HasVideo
  /\ Playing
  /\ ~loop
  /\ currentTime < duration
  /\ Len(mediaQ) < MaxQ
  /\ currentTime' = duration
  /\ tuPending' = TRUE
  /\ mediaQ' = Append(mediaQ, [type |-> "ended", ids |-> {}])
  /\ UNCHANGED <<envVars, instVars, callVars, paused, duration, videoSourceType, sources,
                 playbackRate, loop, inBody, elListeners, nTimeupdate, metaLoaded,
                 updated, obsVars>>

\* A plausible slip: the pause handler only logs.
handlePause_logsOnly(en, p) == en

\* NoSleepVideo.handlePause
handlePause(en, p) == FALSE

\* NoSleepVideo.handleEnded
handleEnded(en, p) == FALSE

\* A plausible slip: an error is taken to have stopped playback, as pause is.
handleError_stopped(en, p) == FALSE

\* NoSleepVideo.handleError
handleError(en, p) == ~p

\* NoSleepVideo.enable after its await: the try block's assignment.
enableThen(en, ids) == IF ids # {} THEN TRUE ELSE en

\* NoSleepVideo.enable after its await: the catch block's assignment.
enableCatch(en, ids) == IF ids # {} THEN FALSE ELSE en

\* isEnabled after the element's listener for event e, if registered, ran.
ElDispatch(e, h, en) == IF e \in elListeners THEN h ELSE en

\* The settled promises: the try block returns, the catch block swallows the
\* error, so the promise enable() returned is fulfilled either way.
Settle(ids, s) ==
  /\ op' = [i \in Ids |-> IF i \in ids THEN s ELSE op[i]]
  /\ promise' = [i \in Ids |-> IF i \in ids THEN "fulfilled" ELSE promise[i]]

\* part_000: enable()'s catch handler rethrows, so the promise is rejected.
LSettle(ids, s) ==
  /\ op' = [i \in Ids |-> IF i \in ids THEN s ELSE op[i]]
  /\ promise' = [i \in Ids |->
                   IF i \notin ids THEN promise[i]
                   ELSE IF s = "ok" THEN "fulfilled" ELSE "rejected"]

\* The oldest media element task runs.  part_000 registers no pause, error
\* or ended listener, so there ElDispatch leaves isEnabled as it is.
DeliverTask(legacy) ==
  /\ mediaQ # <<>>
  /\ mediaQ' = Tail(mediaQ)
  /\ LET e == Head(mediaQ) IN
     CASE e.type = "resolve" ->
            /\ isEnabled' = enableThen(isEnabled, e.ids)
            /\ IF legacy THEN LSettle(e.ids, "ok") ELSE Settle(e.ids, "ok")
            /\ UNCHANGED paused
       [] e.type = "pause" ->
            /\ isEnabled' = enableCatch(
                 ElDispatch("pause", handlePause(isEnabled, paused), isEnabled),
                 e.ids)
            /\ IF legacy THEN LSettle(e.ids, "failed")
                         ELSE Settle(e.ids, "failed")
            /\ UNCHANGED paused
       [] e.type = "error" ->
            /\ isEnabled' = enableCatch(
                 ElDispatch("error", handleError(isEnabled, paused), isEnabled),
                 e.ids)
            /\ IF legacy THEN LSettle(e.ids, "failed")
                         ELSE Settle(e.ids, "failed")
            /\ UNCHANGED paused
       [] e.type = "ended" ->
            LET pausing == ~paused /\ currentTime = duration
                rej == IF pausing THEN InState("pending") ELSE {}
                en1 == IF pausing
                       THEN enableCatch(
                              ElDispatch("pause", handlePause(isEnabled, TRUE),
                                         isEnabled), rej)
                       ELSE isEnabled
            IN /\ paused' = (paused \/ pausing)
               /\ isEnabled' = ElDispatch("ended", handleEnded(en1, paused'), en1)
               /\ IF legacy THEN LSettle(rej, "failed")
                            ELSE Settle(rej, "failed")
  /\ UNCHANGED <<envVars, cls, kind, ctorNative, wakeLock, docListeners, nCalls,
                 issuer, currentTime, duration, videoSourceType, sources,
                 playbackRate, loop, inBody,
                 elListeners, nTimeupdate, metaLoaded, tuPending, updated, obsVars>>

DeliverMedia == kind = "NoSleepVideo" /\ DeliverTask(FALSE)

\* NoSleepVideo.handleLoadedMetadata
handleLoadedMetadata ==
  /\ playbackRate' = SlowRate
  /\ nTimeupdate' = nTimeupdate + 1
  /\ UNCHANGED loop

\* The clip's metadata is loaded and loadedmetadata fires, once: the sources
\* are set at construction and nothing reloads the element.
LoadedMetadata ==
  /\ kind = "NoSleepVideo"
  /\ ~metaLoaded
  /\ metaLoaded' = TRUE
  /\ IF "loadedmetadata" \in elListeners
     THEN handleLoadedMetadata
     ELSE UNCHANGED <<playbackRate, nTimeupdate, loop>>
  /\ UNCHANGED <<envVars, instVars, callVars, paused, currentTime, duration, videoSourceType, sources,
                 inBody, elListeners, tuPending, updated, mediaQ, obsVars>>

\* The listeners' test: currentTime > 0.5.
seekReset(t) == t > Half

\* A plausible slip: the reset draws from the whole first second.
timeupdateListener_wide(t) ==
  IF seekReset(t) THEN 0..(One - 1) ELSE {t}

\* The anonymous timeupdate listener of handleLoadedMetadata: the values
\* currentTime can have after it ran at position t.  Math.random() * 0.5 is
\* in [0, 0.5).
timeupdateListener(t) ==
  IF seekReset(t) THEN 0..(Half - 1) ELSE {t}

\* n listeners run one after the other.
RECURSIVE RunListeners(_, _)
RunListeners(n, t) ==
  IF n = 0 THEN {t}
  ELSE UNION {RunListeners(n - 1, u) : u \in timeupdateListener(t)}

\* timeupdate is dispatched to the element.
TimeUpdate ==
  /\ kind = "NoSleepVideo"
  /\ tuPending
  /\ tuPending' = FALSE
  /\ currentTime' \in RunListeners(nTimeupdate, currentTime)
  /\ updated' = (nTimeupdate > 0 /\ seekReset(currentTime))
  /\ UNCHANGED <<envVars, instVars, callVars, paused, duration, videoSourceType, sources,
                 playbackRate,
                 loop, inBody, elListeners, nTimeupdate, metaLoaded, mediaQ, obsVars>>

(***************************************************************************)
(* main.ts as a whole                                                      *)
(***************************************************************************)
Next ==
  \/ ModuleLoad
  \/ New
  \/ createNoSleepVideo
  \/ Enable
  \/ Disable
  \/ Dispose
  \/ \E i \in Ids : RequestGrant(i)
  \/ \E i \in Ids : RequestReject(i)
  \/ \E i \in Ids : PlatformRelease(i)
  \/ BecomeHidden
  \/ BecomeVisible
  \/ FullscreenChange
  \/ PlatformPlaying
  \/ PlatformPause
  \/ MediaError
  \/ Advance
  \/ ReachEnd
  \/ DeliverMedia
  \/ LoadedMetadata
  \/ TimeUpdate

Spec == Init /\ [][Next]_vars

(***************************************************************************)
(* main.ts: construction with options                                      *)
(***************************************************************************)
\* The options select the source children of the video element and nothing
\* else that a method reads, so Spec constructs without options; here the
\* instance is constructed with every value of options.videoSourceType, in
\* every environment, its clip's metadata is loaded, and it is disposed.
NextConstruct ==
  \/ ModuleLoad
  \/ \E t \in SourceTypes : NewWith(t)
  \/ \E t \in SourceTypes : createNoSleepVideoWith(t)
  \/ LoadedMetadata
  \/ Dispose

SpecConstruct == Init /\ [][NextConstruct]_vars


(***************************************************************************)
(* part_000: the single-class variant NoSleep                              *)
(***************************************************************************)
\* The state after the module is evaluated in a browser: it exports NoSleep.
LInit == EnvInit /\ hasNavigator /\ Blank /\ cls = "NoSleep"

\* NoSleep.constructor
LNew ==
  /\ kind = "none"
  /\ kind' = "NoSleep"
  /\ IF nativeWakeLock
     THEN /\ ctorNative' = TRUE
          /\ docListeners' = DocEvents
          /\ UNCHANGED <<inBody, sources, elListeners>>
     ELSE /\ ctorNative' = FALSE
          /\ inBody' = TRUE
          /\ sources' = addSourceToVideo(addSourceToVideo(<<>>, "webm"), "mp4")
          /\ elListeners' = {"loadedmetadata"}
          /\ UNCHANGED docListeners
  /\ UNCHANGED <<envVars, cls, isEnabled, wakeLock, callVars, paused,
                 currentTime, duration, videoSourceType, playbackRate, loop,
                 nTimeupdate,
                 metaLoaded, tuPending, updated, mediaQ, obsVars>>

\* The display mode or the wakeLock capability changes under the instance.
LEnvChange ==
  /\ kind = "NoSleep"
  /\ \/ standalone' = ~standalone /\ UNCHANGED hasWakeLock
     \/ hasWakeLock' = ~hasWakeLock /\ UNCHANGED standalone
  /\ UNCHANGED <<hasNavigator, visible, instVars, callVars, videoVars, obsVars>>

\* NoSleep.enable up to the platform call.  The branch is chosen by
\* nativeWakeLock() now; this.noSleepVideo is undefined on an instance whose
\* constructor took the native branch, and play() on it throws a TypeError.
LEnableBody(o, who) ==
  IF nativeWakeLock
  THEN /\ lastBranch' = "native"
       /\ thrown' = "none"
       /\ StartCallOn(o, who, "requested", "pending")
       /\ UNCHANGED <<isEnabled, paused, currentTime>>
  ELSE /\ lastBranch' = "video"
       /\ IF ctorNative
          THEN /\ thrown' = "TypeError"
               /\ op' = o
               /\ UNCHANGED <<nCalls, promise, issuer, isEnabled, paused,
                              currentTime>>
          ELSE /\ thrown' = "none"
               /\ \E allowed \in BOOLEAN :
                    IF allowed
                    THEN /\ StartCallOn(o, who, "pending", "pending")
                         /\ paused' = FALSE
                         /\ currentTime' = PlaySeek
                         /\ UNCHANGED isEnabled
                    ELSE /\ StartCallOn(o, who, "failed", "rejected")
                         /\ isEnabled' = FALSE
                         /\ UNCHANGED <<paused, currentTime>>

LEnable ==
  /\ kind = "NoSleep"
  /\ LEnableBody(op, "user")
  /\ nDisable' = 0
  /\ raced' = FALSE
  /\ UNCHANGED <<envVars, cls, kind, ctorNative, wakeLock, docListeners,
                 duration, videoSourceType, sources, playbackRate, loop, inBody,
                 elListeners, nTimeupdate, metaLoaded, tuPending, updated, mediaQ>>

\* NoSleep.disable.  this._wakeLock is undefined on an instance whose
\* constructor took the video branch.
LDisable ==
  /\ kind = "NoSleep"
  /\ nDisable' = Min(nDisable + 1, MaxRepeat)
  /\ IF nativeWakeLock
     THEN /\ lastBranch' = "native"
          /\ thrown' = "none"
          /\ op' = ReleaseLock(op, wakeLock)
          /\ wakeLock' = 0
          /\ isEnabled' = FALSE
          /\ raced' = (raced \/ Pending # {})
          /\ UNCHANGED <<paused, mediaQ>>
     ELSE /\ lastBranch' = "video"
          /\ IF ctorNative
             THEN /\ thrown' = "TypeError"
                  /\ UNCHANGED <<op, wakeLock, isEnabled, raced, paused, mediaQ>>
             ELSE /\ thrown' = "none"
                  /\ QueueHasRoom
                  /\ PauseSteps
                  /\ isEnabled' = FALSE
                  /\ raced' = (raced \/ Pending # {})
                  /\ UNCHANGED wakeLock
  /\ UNCHANGED <<envVars, cls, kind, ctorNative, docListeners, nCalls, promise,
                 issuer, currentTime, duration, videoSourceType, sources,
                 playbackRate, loop, inBody,
                 elListeners, nTimeupdate, metaLoaded, tuPending, updated>>

\* NoSleep.enable's then handler on the wake-lock request.
LRequestGrant(i) ==
  /\ kind = "NoSleep"
  /\ op[i] = "requested"
  /\ visible
  /\ wakeLock' = i
  /\ isEnabled' = TRUE
  /\ op' = [op EXCEPT ![i] = "granted"]
  /\ promise' = [promise EXCEPT ![i] = "fulfilled"]
  /\ UNCHANGED <<envVars, cls, kind, ctorNative, docListeners, nCalls, issuer,
                 videoVars, obsVars>>

\* NoSleep.enable's catch handler on the wake-lock request: it rethrows.
LRequestReject(i) ==
  /\ kind = "NoSleep"
  /\ op[i] = "requested"
  /\ isEnabled' = FALSE
  /\ op' = [op EXCEPT ![i] = "failed"]
  /\ promise' = [promise EXCEPT ![i] = "rejected"]
  /\ UNCHANGED <<envVars, cls, kind, ctorNative, wakeLock, docListeners,
                 nCalls, issuer, videoVars, obsVars>>


\* part_000: handleVisibilityChange; enable() is called as the caller would
\* call it, and its rejection is swallowed.
LhandleVisibilityChange(o, vis) ==
  IF wakeLock # 0 /\ vis
  THEN /\ LEnableBody(o, "event")
       /\ nDisable' = IF nCalls' > nCalls THEN 0 ELSE nDisable
       /\ raced' = IF nCalls' > nCalls THEN FALSE ELSE raced
  ELSE /\ op' = o
       /\ UNCHANGED <<nCalls, promise, issuer, isEnabled, paused, currentTime,
                      obsVars>>

\* The page is hidden or shown, or fullscreenchange fires.  Hiding the page
\* makes the platform release every lock.
LDocEvent ==
  /\ kind = "NoSleep"
  /\ ctorNative
  /\ \E e \in DocEvents :
       LET vis == IF e = "visibilitychange" THEN ~visible ELSE visible
           o == IF vis THEN op
                ELSE [i \in Ids |-> IF op[i] = "granted" THEN "released" ELSE op[i]]
       IN /\ visible' = vis
          /\ IF e \in docListeners
             THEN LhandleVisibilityChange(o, vis)
             ELSE /\ op' = o
                  /\ UNCHANGED <<nCalls, promise, issuer, isEnabled, paused,
                                 currentTime, obsVars>>
  /\ UNCHANGED <<hasNavigator, hasWakeLock, standalone, cls, kind, ctorNative,
                 wakeLock, docListeners, duration, videoSourceType, sources,
                 playbackRate,
                 loop, inBody, elListeners, nTimeupdate, metaLoaded, tuPending, updated,
                 mediaQ>>

LDeliverMedia == kind = "NoSleep" /\ DeliverTask(TRUE)

\* part_000: the loadedmetadata listener of the constructor.
LhandleLoadedMetadata ==
  IF duration <= One
  THEN loop' = TRUE /\ UNCHANGED <<playbackRate, nTimeupdate>>
  ELSE nTimeupdate' = nTimeupdate + 1 /\ UNCHANGED <<playbackRate, loop>>

LLoadedMetadata ==
  /\ kind = "NoSleep"
  /\ ~ctorNative
  /\ ~metaLoaded
  /\ metaLoaded' = TRUE
  /\ IF "loadedmetadata" \in elListeners
     THEN LhandleLoadedMetadata
     ELSE UNCHANGED <<playbackRate, nTimeupdate, loop>>
  /\ UNCHANGED <<envVars, instVars, callVars, paused, currentTime, duration, videoSourceType, sources,
                 inBody, elListeners, tuPending, updated, mediaQ, obsVars>>

\* part_000: the timeupdate listener; Math.random() is in [0, 1).
LtimeupdateListener(t) ==
  IF seekReset(t) THEN 0..(One - 1) ELSE {t}

LTimeUpdate ==
  /\ kind = "NoSleep"
  /\ tuPending
  /\ tuPending' = FALSE
  /\ currentTime' \in (IF nTimeupdate = 0 THEN {currentTime}
                       ELSE LtimeupdateListener(currentTime))
  /\ updated' = (nTimeupdate > 0 /\ seekReset(currentTime))
  /\ UNCHANGED <<envVars, instVars, callVars, paused, duration, videoSourceType, sources,
                 playbackRate,
                 loop, inBody, elListeners, nTimeupdate, metaLoaded, mediaQ,
                 obsVars>>

NextLegacy ==
  \/ LNew
  \/ LEnvChange
  \/ LEnable
  \/ LDisable
  \/ \E i \in Ids : LRequestGrant(i)
  \/ \E i \in Ids : LRequestReject(i)
  \/ \E i \in Ids : PlatformRelease(i)
  \/ LDocEvent
  \/ PlatformPlaying
  \/ PlatformPause
  \/ MediaError
  \/ Advance
  \/ ReachEnd
  \/ LDeliverMedia
  \/ LLoadedMetadata
  \/ LTimeUpdate

SpecLegacy == LInit /\ [][NextLegacy]_vars


(***************************************************************************)
(* Properties                                                              *)
(***************************************************************************)
Strategies == {"NoSleepNative", "NoSleepVideo"}

\* The promise of the i-th enable() call settles in this step.
Settles(i) == promise[i] \in {"none", "pending"} /\ promise'[i] \in {"fulfilled", "rejected"}

\* C1: in the Native and Video-Fallback strategies, when an enable() call
\* settles after its platform operation succeeded isEnabled is true; when it
\* settles after the operation failed isEnabled is false and the promise the
\* caller holds is rejected.
C1_EnableOutcome ==
  [][\A i \in Ids :
       (kind \in Strategies /\ Settles(i)) =>
         /\ op'[i] \in {"granted", "ok"} => isEnabled' /\ promise'[i] = "fulfilled"
         /\ op'[i] = "failed" => ~isEnabled' /\ promise'[i] = "rejected"]_vars

\* C2 as stated: for every strategy, the No-op strategy included, each
\* disable() call raises no error and leaves isEnabled false.
C2_DisableNeverThrows ==
  [][Disable => (thrown' = "none" /\ ~isEnabled')]_vars

\* C2 as amended: each disable() call of the Native and Video-Fallback
\* strategies raises no error and leaves isEnabled false, however many times
\* it is called without an intervening enable(); each disable() call of the
\* No-op strategy throws and leaves isEnabled false.
C2_DisableIdempotent ==
  [][Disable =>
       /\ ~isEnabled'
       /\ kind \in Strategies => thrown' = "none"
       /\ kind = "NoSleepSSR" => thrown' = "Error"]_vars

\* A second disable() in a row has returned on an instance that was enabled
\* before.
C2_Witness ==
  /\ kind \in Strategies
  /\ nDisable >= 2
  /\ \E i \in Ids : op[i] \in {"released", "ok"}
  /\ thrown = "none"
  /\ ~isEnabled
  /\ ~raced

\* A visibilitychange or fullscreenchange event is delivered to the handler
\* of the Native strategy in this step.
NativeEventStep ==
  /\ kind = "NoSleepNative"
  /\ \/ BecomeHidden /\ "visibilitychange" \in docListeners
     \/ BecomeVisible /\ "visibilitychange" \in docListeners
     \/ FullscreenChange /\ "fullscreenchange" \in docListeners

\* C3: Native strategy: an event delivered while the page is visible and a
\* handle reference is retained issues exactly one new wake-lock request; an
\* event delivered while no handle is referenced or the page is not visible
\* issues none; and disable() clears the handle reference.
C3_Reacquire ==
  [][/\ NativeEventStep =>
          IF wakeLock # 0 /\ visible'
          THEN /\ nCalls' = nCalls + 1
               /\ op'[nCalls'] = "requested"
               /\ issuer'[nCalls'] = "event"
               /\ \A i \in 1..nCalls : op'[i] # "requested" \/ op[i] = "requested"
          ELSE /\ nCalls' = nCalls
               /\ \A i \in Ids : op'[i] = "requested" => op[i] = "requested"
     /\ (kind = "NoSleepNative" /\ Disable) => wakeLock' = 0]_vars

\* After a successful enable() the platform released the lock, the handle is
\* still referenced, and an event has issued a new request.
C3_Witness ==
  /\ kind = "NoSleepNative"
  /\ wakeLock # 0
  /\ op[wakeLock] = "released"
  /\ visible
  /\ \E j \in Ids : j > wakeLock /\ op[j] = "requested" /\ issuer[j] = "event"

\* The wake mechanism is disengaged: isEnabled is false, no granted lock is
\* unreleased, and the video is paused.
Disengaged ==
  /\ ~isEnabled
  /\ \A i \in Ids : op[i] # "granted"
  /\ kind = "NoSleepVideo" => paused

\* C4: in the Native and Video-Fallback strategies, if disable() was called
\* while an enable() was pending and enable() was not called since, then once
\* every pending operation has settled the wake mechanism is disengaged.
C4_DisableAuthoritative ==
  (kind \in Strategies /\ raced /\ Pending = {} /\ mediaQ = <<>>) => Disengaged

\* C5: the default export is exactly one of the three classes: the No-op
\* class iff there is no browser environment, the Native class iff there is
\* one with wakeLock and not standalone, the Video-Fallback class otherwise.
C5_Detection ==
  cls # "unset" =>
    /\ cls \in {"NoSleepSSR", "NoSleepNative", "NoSleepVideo"}
    /\ cls = "NoSleepSSR" <=> ~hasNavigator
    /\ cls = "NoSleepNative" <=> (hasNavigator /\ hasWakeLock /\ ~standalone)
    /\ cls = "NoSleepVideo" <=> (hasNavigator /\ (~hasWakeLock \/ standalone))
    /\ (kind # "none" /\ kind # "NoSleepVideo") => kind = cls

\* An instance of the Video-Fallback class was constructed by the default
\* export although the wakeLock capability is present: the page is standalone.
C5_Witness ==
  /\ cls = "NoSleepVideo"
  /\ kind = cls
  /\ hasWakeLock
  /\ standalone

\* The instance has been disposed before.
Disposed ==
  /\ kind = "NoSleepNative" => docListeners = {}
  /\ kind = "NoSleepVideo" => ~inBody

\* C6: for every strategy, dispose() on an instance that has already been
\* disposed raises no error.
C6_SecondDisposeSafe ==
  [][(Dispose /\ Disposed) => thrown' = "none"]_vars

\* C7: after dispose() of the Video-Fallback strategy no listener of the
\* strategy is registered on the element (the named ones and timeupdate) and
\* the element is not in the document.
C7_DisposeRemovesAll ==
  [][(kind = "NoSleepVideo" /\ Dispose) =>
       (elListeners' = {} /\ nTimeupdate' = 0 /\ ~inBody')]_vars

\* C8: part_000: every enable() and disable() call acts on the strategy the
\* constructor set up.
C8_NoStrategySwitch ==
  (kind = "NoSleep" /\ lastBranch # "none") =>
    lastBranch = (IF ctorNative THEN "native" ELSE "video")

\* C9: Video-Fallback strategy of main.ts, clip of duration <= 1: the
\* loadedmetadata handler configures the element to loop, and no timeupdate
\* event after it makes the strategy write currentTime.
C9_ShortClipLoops ==
  [][/\ (kind = "NoSleepVideo" /\ duration <= One /\ LoadedMetadata
           /\ "loadedmetadata" \in elListeners) => loop'
     /\ (kind = "NoSleepVideo" /\ duration <= One /\ metaLoaded /\ TimeUpdate) =>
          (~updated' /\ currentTime' = currentTime)]_vars

\* C10: Video-Fallback strategy of main.ts, clip of duration > 1, timeupdate
\* listener registered by the loadedmetadata handler: a timeupdate observed
\* with currentTime > 0.5 resets currentTime to a value in [0, 0.5) with the
\* playback rate at 0.1; one observed with currentTime <= 0.5 leaves
\* currentTime unchanged; so afterwards currentTime <= 0.5.
C10_SeekReset ==
  [][(kind = "NoSleepVideo" /\ duration > One /\ nTimeupdate > 0 /\ TimeUpdate) =>
       /\ currentTime > Half =>
            (updated' /\ currentTime' \in 0..(Half - 1) /\ playbackRate' = SlowRate)
       /\ currentTime <= Half => (~updated' /\ currentTime' = currentTime)
       /\ currentTime' <= Half]_vars

\* The listener has just reset the position of a playing clip of duration > 1.
C10_Witness ==
  /\ kind = "NoSleepVideo"
  /\ duration > One
  /\ nTimeupdate > 0
  /\ updated
  /\ ~tuPending
  /\ currentTime < Half
  /\ playbackRate = SlowRate

\* The oldest media element task, which fires an event of type t, runs on a
\* Video-Fallback instance that has not been disposed.
Delivers(t) ==
  /\ kind = "NoSleepVideo"
  /\ inBody
  /\ mediaQ # <<>>
  /\ Head(mediaQ).type = t
  /\ DeliverMedia

\* C11: Video-Fallback strategy, instance not disposed: the delivery of a
\* pause or ended event leaves isEnabled false; the delivery of an error
\* event leaves isEnabled equal to the negation of the element's paused flag
\* (when the same error rejects a play() promise, the catch block of enable()
\* runs right after the handler and leaves isEnabled false); and none of the
\* three deliveries calls play(): no enable() call is started, no play()
\* promise is created, and the element is not taken out of the paused state.
C11_OneWayCorrections ==
  [][/\ (Delivers("pause") \/ Delivers("ended")) => ~isEnabled'
     /\ Delivers("error") =>
          isEnabled' = (IF Head(mediaQ).ids = {} THEN ~paused ELSE FALSE)
     /\ (Delivers("pause") \/ Delivers("ended") \/ Delivers("error")) =>
          /\ nCalls' = nCalls
          /\ \A i \in Ids : op'[i] = "pending" => op[i] = "pending"
          /\ paused => paused']_vars

\* An error event was delivered while the element was not paused: isEnabled
\* is true although no play() promise was ever resolved.
C11_Witness ==
  /\ kind = "NoSleepVideo"
  /\ inBody
  /\ mediaQ = <<>>
  /\ isEnabled
  /\ ~paused
  /\ \A i \in Ids : op[i] \in {"none", "failed"}

\* C12: No-op strategy: every enable() call and every disable() call throws
\* an Error at once, without starting a platform operation, and isEnabled is
\* false after every step of a No-op instance, whatever sequence of enable(),
\* disable() and dispose() is called.
C12_NoopAlwaysFails ==
  [][kind = "NoSleepSSR" =>
       /\ ~isEnabled'
       /\ (Enable \/ Disable) =>
            (thrown' = "Error" /\ nCalls' = nCalls /\ promise' = promise)]_vars

\* enable() has just thrown on a No-op instance.
C12_Witness ==
  /\ kind = "NoSleepSSR"
  /\ thrown = "Error"
  /\ nDisable = 0
  /\ ~isEnabled

\* C13: Native strategy: in every state in which no enable() is pending (the
\* release event of a lock is delivered to its listener in the step that
\* releases it), isEnabled is true only if the handle referenced by wakeLock
\* is a lock the platform has not released.
C13_EnabledMeansHeld ==
  (kind = "NoSleepNative" /\ Pending = {} /\ isEnabled) =>
    (wakeLock # 0 /\ op[wakeLock] = "granted")

\* A Video-Fallback instance is constructed in this step.
VideoConstructed == kind = "none" /\ kind' = "NoSleepVideo"

HoldsLock == wakeLock # 0 /\ op[wakeLock] = "granted"

\* C15: Native strategy: an enable() call, made directly or by the
\* visibility/fullscreen handler, while the strategy references a handle that
\* the platform has not released issues no new wake-lock request.
C15_RequestOnlyIfNotHeld ==
  [][(kind = "NoSleepNative" /\ HoldsLock /\ (Enable \/ FullscreenChange)) =>
       (nCalls' = nCalls /\ \A i \in Ids : op'[i] = "requested" => op[i] = "requested")]_vars

\* C16: Native strategy: when dispose() returns, both document listeners are
\* deregistered, the handle that was referenced is released and the reference
\* cleared, and isEnabled is false; and no visibilitychange or fullscreenchange
\* event after it makes the instance issue a wake-lock request.
C16_NativeDispose ==
  [][/\ (kind = "NoSleepNative" /\ Dispose) =>
          /\ docListeners' = {}
          /\ wakeLock # 0 => op'[wakeLock] # "granted"
          /\ wakeLock' = 0
          /\ ~isEnabled'
     /\ (kind = "NoSleepNative" /\ docListeners = {}
           /\ (BecomeHidden \/ BecomeVisible \/ FullscreenChange)) =>
          /\ nCalls' = nCalls
          /\ \A i \in Ids : op'[i] = "requested" => op[i] = "requested"]_vars

\* After dispose() a request that was in flight was granted, so a handle is
\* referenced again, and the page was then hidden: the event reached no
\* handler and no request is outstanding.
C16_Witness ==
  /\ kind = "NoSleepNative"
  /\ docListeners = {}
  /\ wakeLock = 2
  /\ op[1] = "released"
  /\ ~visible
  /\ nDisable = 0
  /\ InState("requested") = {}

\* C17: Native strategy: in every reachable state every lock the instance
\* obtained and the platform has not released is the one wakeLock references,
\* so at most one unreleased lock exists; and when disable() was the latest
\* call and no enable() is pending, none exists.
C17_NoLockLeak ==
  kind = "NoSleepNative" =>
    /\ \A i \in Ids : op[i] = "granted" => wakeLock = i
    /\ (nDisable > 0 /\ Pending = {}) => \A i \in Ids : op[i] # "granted"

\* The request of call i settles in this step on a disposed Native instance,
\* it is the latest call, and nothing is pending afterwards.  A request the
\* visibility handler issued was issued before dispose(), which removes the
\* handler, so it was pending when dispose() was called.
SettlesAfterDispose(i) ==
  /\ kind = "NoSleepNative"
  /\ docListeners = {}
  /\ issuer[i] = "event"
  /\ \A j \in Ids : j > i => op[j] = "none"
  /\ RequestGrant(i) \/ RequestReject(i)
  /\ Pending' = {}

\* C18: Native and Video-Fallback strategies: once dispose() has been called
\* and every operation pending at that moment has settled, isEnabled is false
\* and no lock the instance obtained is unreleased.  Stated for the two
\* moments at which that becomes true: dispose() returns with nothing
\* pending, and the last operation that was pending at dispose() settles.
C18_DisposeReleasesAll ==
  [][/\ (kind \in Strategies /\ Dispose /\ Pending = {} /\ mediaQ = <<>>) =>
          (~isEnabled' /\ \A k \in Ids : op'[k] # "granted")
     /\ \A i \in Ids : SettlesAfterDispose(i) =>
          (~isEnabled' /\ \A k \in Ids : op'[k] # "granted")]_vars

\* C19: Video-Fallback strategy, instance not disposed: in every state in
\* which every queued media element task has been delivered and no play()
\* promise is pending, isEnabled is true only if the element is not paused.
C19_EnabledMeansPlaying ==
  (kind = "NoSleepVideo" /\ inBody /\ mediaQ = <<>> /\ Pending = {} /\ isEnabled) =>
    ~paused

\* The first enable() was rejected, a later one succeeded, every media task
\* has been delivered, and the element is playing with isEnabled true.
C19_Witness ==
  /\ kind = "NoSleepVideo"
  /\ inBody
  /\ mediaQ = <<>>
  /\ Pending = {}
  /\ op[1] = "failed"
  /\ op[2] = "ok"
  /\ isEnabled
  /\ ~paused

====
